---- MODULE Spec2Model ----
(***************************************************************************)
(* A model of plaso/lib/putils.py: parser selection by filter string       *)
(* (FindAllParsers, _FindClasses, GetParsersFromPlugins) and the hex dump  *)
(* renderer (GetEventData, GetHexDumpStream, GetHexDump, GetHexDumpLine).  *)
(*                                                                         *)
(* Strings that the code only compares (parser, plugin and filter names)   *)
(* are TLA+ strings; text that the code builds character by character (the *)
(* hex dump) is a sequence of character ordinals.                          *)
(***************************************************************************)
EXTENDS Integers, Sequences, FiniteSets, TLC

VARIABLES
  parser_classes,   \* parser.BaseParser.classes, in enumeration order
  plugin_classes,   \* plugin.BasePlugin.classes: plugin name -> parent_class
  next_id,          \* identity of the next object a constructor creates
  calls,            \* number of FindAllParsers calls made so far
  op,               \* the operation that ran last
  filter_include,   \* last call: the include list handed in
  filter_exclude,   \* last call: the exclude list handed in
  parser_list,      \* last call: what GetParsersFromPlugins returned
  results,          \* last call: the mapping FindAllParsers returned
  returned,         \* last call: a value was handed to the caller
  raised,           \* last call: an exception reached the caller
  log,              \* last call: names written by logging.error
  constructed,      \* last call: instances the constructors created
  earlier,          \* instances that calls before the last one created
  remembered,       \* an earlier FindAllParsers call kept for comparison
  data,             \* the bytes of the buffer, or of the file behind fh
  evt,              \* last call: the event object handed to GetEventData
  before,           \* last call: GetEventData's before
  length,           \* last call: the number of lines asked for
  io_error,         \* last call: the byte-source step that raises IOError
  offset,           \* last call: the offset handed to GetHexDump(Stream)
  seeks,            \* last call: the offsets handed to fh.seek
  text              \* last call: the string returned

selvars == <<parser_classes, plugin_classes, next_id, calls,
             filter_include, filter_exclude, parser_list, results,
             log, constructed, earlier, remembered>>
hexvars == <<data, evt, before, length, io_error, offset, seeks, text>>
vars == <<selvars, hexvars, op, returned, raised>>

(***************************************************************************)
(* Bounds of the model.                                                    *)
(***************************************************************************)
MaxInclude == 2
MaxExclude == 1
MaxCalls == 3

(***************************************************************************)
(* Names.  Registered parser names may be mixed case (the code lowercases  *)
(* parser_name before comparing); filter names are what the filter parser  *)
(* hands over, already lowercase.                                          *)
(***************************************************************************)
ParserClassNames == {"SQLiteParser", "winevt", "Pcap"}
FilterNames == {"sqliteparser", "winevt", "skype", "chrome"}

\* str.lower() on the names of the model.
Lower(s) ==
  CASE s = "SQLiteParser" -> "sqliteparser"
    [] s = "Skype" -> "skype"
    [] s = "Pcap" -> "pcap"
    [] OTHER -> s

Contains(s, x) == \E i \in 1..Len(s) : s[i] = x

RECURSIVE SeqsUpTo(_, _)
SeqsUpTo(S, n) ==
  IF n = 0 THEN {<<>>}
  ELSE LET shorter == SeqsUpTo(S, n - 1)
       IN  shorter \cup {Append(s, x) : s \in shorter, x \in S}

NoDuplicates(s) == \A i, j \in 1..Len(s) : i # j => s[i] # s[j]

\* The parser registries the model starts from: every entry has a class
\* name and a constructor that either returns an instance or raises.
ParserCatalogs ==
  {c \in SeqsUpTo([name : ParserClassNames, fails : BOOLEAN],
                   Cardinality(ParserClassNames)) :
     NoDuplicates([i \in 1..Len(c) |-> c[i].name])}

\* The plugin registries the model starts from (plugin name :> parent_class;
\* an empty parent_class is a plugin without a parent).
PluginCatalogs ==
  { [n \in {} |-> ""],
    [n \in {"skype"} |-> "sqliteparser"],
    [n \in {"skype", "chrome"} |-> "sqliteparser"],
    [n \in {"skype", "chrome"} |-> IF n = "skype" THEN "winevt" ELSE "sqliteparser"],
    [n \in {"skype"} |-> "SQLiteParser"],
    [n \in {"Skype"} |-> "sqliteparser"],
    [n \in {"skype"} |-> ""] }

IncludeLists == SeqsUpTo(FilterNames, MaxInclude)
ExcludeLists == SeqsUpTo(FilterNames, MaxExclude)

(***************************************************************************)
(* _FindClasses (lines 104-124).                                           *)
(***************************************************************************)
\* Construct with the instance of a class kept and handed out again.
ConstructCached(cls, id) == [parser_name |-> cls.name, id |-> 1]

\* class_object.classes[cls](*args): a constructor call makes a new object.
Construct(cls, id) == [parser_name |-> cls.name, id |-> id]

RECURSIVE FindClassesLoop(_, _, _, _)
FindClassesLoop(classes, i, id, acc) ==
  IF i > Len(classes)
  THEN [raised |-> FALSE, results |-> acc, created |-> acc, log |-> <<>>]
  ELSE IF classes[i].fails
  THEN [raised |-> TRUE, results |-> <<>>, created |-> acc,
        log |-> <<classes[i].name>>]
  ELSE FindClassesLoop(classes, i + 1, id + 1,
                       Append(acc, Construct(classes[i], id)))

\* _FindClasses with the failing entry logged and skipped instead of raised.
RECURSIVE FindClassesSkipLoop(_, _, _, _, _)
FindClassesSkipLoop(classes, i, id, acc, logged) ==
  IF i > Len(classes)
  THEN [raised |-> FALSE, results |-> acc, created |-> acc, log |-> logged]
  ELSE IF classes[i].fails
  THEN FindClassesSkipLoop(classes, i + 1, id, acc,
                           Append(logged, classes[i].name))
  ELSE FindClassesSkipLoop(classes, i + 1, id + 1,
                           Append(acc, Construct(classes[i], id)), logged)

FindClassesSkipBroken(classes, id) ==
  FindClassesSkipLoop(classes, 1, id, <<>>, <<>>)

_FindClasses(classes, id) == FindClassesLoop(classes, 1, id, <<>>)

(***************************************************************************)
(* GetParsersFromPlugins (lines 245-284).  exclude_is_list is whether      *)
(* type(exclude_strings) is tuple or list.                                 *)
(***************************************************************************)
\* GetParsersFromPlugins with the lookup of the plugin's parent left out.
GetParsersNoParents(filter_strings, exclude_strings, exclude_is_list, plugins) ==
  <<>>

RECURSIVE ParsersFromPluginsLoop(_, _, _, _, _)
ParsersFromPluginsLoop(filter_strings, exclude_strings, plugins, i, acc) ==
  IF i > Len(filter_strings) THEN acc
  ELSE LET parser_include == filter_strings[i]
           found == parser_include \in DOMAIN plugins
           skip == exclude_strings # <<>>
                   /\ Contains(exclude_strings, parser_include)
           parent == plugins[parser_include]
           take == found /\ ~skip /\ parent # ""
                   /\ ~Contains(filter_strings, parent)
                   /\ ~Contains(acc, parent)
       IN  ParsersFromPluginsLoop(filter_strings, exclude_strings, plugins,
             i + 1, IF take THEN Append(acc, parent) ELSE acc)

GetParsersFromPlugins(filter_strings, exclude_strings, exclude_is_list, plugins) ==
  IF filter_strings = <<>> THEN <<>>
  ELSE IF exclude_strings # <<>> /\ ~exclude_is_list THEN <<>>
  ELSE ParsersFromPluginsLoop(filter_strings, exclude_strings, plugins,
                              1, <<>>)

(***************************************************************************)
(* FindAllParsers (lines 38-101).                                          *)
(***************************************************************************)
\* Add with an include match deciding before the exclude list is read.
AddIncludeFirst(parser_name, include, exclude) ==
  IF ~(exclude # <<>> \/ include # <<>>) THEN TRUE
  ELSE LET name == Lower(parser_name)
       IN  IF Contains(include, name) THEN TRUE ELSE FALSE

\* Add with an empty include list standing for every parser.
AddAllButExcluded(parser_name, include, exclude) ==
  LET name == Lower(parser_name)
  IN  IF Contains(exclude, name) THEN FALSE
      ELSE include = <<>> \/ Contains(include, name)

\* The decision of lines 83-94 for one parser object.
Add(parser_name, include, exclude) ==
  IF ~(exclude # <<>> \/ include # <<>>) THEN TRUE
  ELSE LET name == Lower(parser_name)
       IN  IF Contains(exclude, name) THEN FALSE
           ELSE Contains(include, name)

\* SelectLoop with the selected parser put in front of the list.
RECURSIVE SelectLoopPrepend(_, _, _, _, _)
SelectLoopPrepend(objs, include, exclude, i, acc) ==
  IF i > Len(objs) THEN acc
  ELSE SelectLoopPrepend(objs, include, exclude, i + 1,
         IF Add(objs[i].parser_name, include, exclude)
         THEN <<objs[i]>> \o acc ELSE acc)

RECURSIVE SelectLoop(_, _, _, _, _)
SelectLoop(objs, include, exclude, i, acc) ==
  IF i > Len(objs) THEN acc
  ELSE SelectLoop(objs, include, exclude, i + 1,
         IF Add(objs[i].parser_name, include, exclude)
         THEN Append(acc, objs[i]) ELSE acc)

NoResults == [k \in {} |-> <<>>]

FindAllParsers(include, exclude, classes, plugins, id) ==
  LET resolved == GetParsersFromPlugins(include, exclude, TRUE, plugins)
      extended == include \o resolved
      found == _FindClasses(classes, id)
  IN  [ parser_list |-> resolved,
        include |-> extended,
        raised |-> found.raised,
        returned |-> ~found.raised,
        results |-> IF found.raised THEN NoResults
                    ELSE [all |-> SelectLoop(found.results, extended,
                                             exclude, 1, <<>>)],
        log |-> found.log,
        created |-> found.created ]

Range(s) == {s[i] : i \in 1..Len(s)}
Names(objs) == [i \in 1..Len(objs) |-> objs[i].parser_name]

NotRemembered ==
  [set |-> FALSE, include |-> <<>>, exclude |-> <<>>, raised |-> FALSE,
   names |-> <<>>]

(***************************************************************************)
(* The hex dump renderer (lines 139-242).  A string is the sequence of its *)
(* characters' ordinals.                                                   *)
(***************************************************************************)
BytesPerLine == 16
HexPerLine == 32
OffsetWidth == 7

Min(a, b) == IF a < b THEN a ELSE b

\* s[a:b] and s[a:] of Python, for a, b >= 0.
PySlice(s, a, b) ==
  LET lo == Min(a, Len(s))
      hi == Min(b, Len(s))
  IN  IF hi <= lo THEN <<>> ELSE [i \in 1..(hi - lo) |-> s[lo + i]]

PySliceFrom(s, a) == PySlice(s, a, Len(s))

\* c * n of Python for a one-character string c: empty when n <= 0.
Repeat(c, n) == IF n <= 0 THEN <<>> ELSE [i \in 1..n |-> c]

\* "0123456789abcdef"[n]
HexDigit(n) == IF n < 10 THEN 48 + n ELSE 87 + n

\* binascii.hexlify
hexlify(bytes) ==
  [i \in 1..(2 * Len(bytes)) |->
     IF i % 2 = 1 THEN HexDigit(bytes[(i + 1) \div 2] \div 16)
     ELSE HexDigit(bytes[i \div 2] % 16)]

\* The value of a hexadecimal digit character, -1 for any other character.
HexValue(c) ==
  IF c >= 48 /\ c <= 57 THEN c - 48
  ELSE IF c >= 97 /\ c <= 102 THEN c - 87
  ELSE IF c >= 65 /\ c <= 70 THEN c - 55
  ELSE -1

\* binascii.unhexlify of a string of at most two characters: TypeError for
\* an odd length or a character that is no hexadecimal digit.
unhexlify(s) ==
  IF Len(s) = 0 THEN [ok |-> TRUE, bytes |-> <<>>]
  ELSE IF Len(s) # 2 \/ HexValue(s[1]) < 0 \/ HexValue(s[2]) < 0
  THEN [ok |-> FALSE, bytes |-> <<>>]
  ELSE [ok |-> TRUE, bytes |-> <<16 * HexValue(s[1]) + HexValue(s[2])>>]

RECURSIVE HexDigits(_)
HexDigits(n) ==
  IF n < 16 THEN <<HexDigit(n)>>
  ELSE Append(HexDigits(n \div 16), HexDigit(n % 16))

\* '{0:07x}'.format(n) for n >= 0
Format07x(n) ==
  LET digits == HexDigits(n)
  IN  Repeat(48, OffsetWidth - Len(digits)) \o digits

\* The loop of lines 229-230.
RECURSIVE HexColumns(_, _)
HexColumns(line, bit) ==
  IF bit >= 8 THEN <<>>
  ELSE PySlice(line, bit * 4, bit * 4 + 4) \o <<32>> \o HexColumns(line, bit + 1)

\* AsciiChar with the lower limit of the printable range off by one.
AsciiCharFromUnitSeparator(line, bit) ==
  LET u == unhexlify(PySlice(line, bit * 2, bit * 2 + 2))
      d == IF u.ok THEN u.bytes ELSE <<46>>
  IN  IF d[1] >= 31 /\ d[1] < 128 THEN d[1] ELSE 46

\* Lines 233-241 for one bit; every slice the callers produce has one or two
\* characters, and ord() is of a one-character string.
AsciiChar(line, bit) ==
  LET u == unhexlify(PySlice(line, bit * 2, bit * 2 + 2))
      d == IF u.ok THEN u.bytes ELSE <<46>>
  IN  IF d[1] > 31 /\ d[1] < 128 THEN d[1] ELSE 46

GetHexDumpLine(line, orig_ofs, entry_nr) ==
  Format07x(orig_ofs + entry_nr * BytesPerLine) \o <<58, 32>>
    \o HexColumns(line, 0)
    \o [bit \in 1..BytesPerLine |-> AsciiChar(line, bit - 1)]

RECURSIVE FullLines(_, _, _, _)
FullLines(hexdata, orig_ofs, entry_nr, count) ==
  IF entry_nr >= count THEN <<>>
  ELSE <<GetHexDumpLine(PySlice(hexdata, HexPerLine * entry_nr,
                                HexPerLine * entry_nr + HexPerLine),
                        orig_ofs, entry_nr)>>
       \o FullLines(hexdata, orig_ofs, entry_nr + 1, count)

\* Lines 214-219.
LastLine(hexdata, orig_ofs) ==
  IF Len(hexdata) % HexPerLine = 0 THEN <<>>
  ELSE LET breakpoint == Len(hexdata) \div HexPerLine
           leftovers == PySliceFrom(hexdata, breakpoint)
           pad == Repeat(32, HexPerLine - Len(leftovers))
       IN  <<GetHexDumpLine(leftovers \o pad, orig_ofs, breakpoint)>>

\* '\n'.join(lines)
RECURSIVE Join(_)
Join(lines) ==
  IF Len(lines) = 0 THEN <<>>
  ELSE IF Len(lines) = 1 THEN lines[1]
  ELSE lines[1] \o <<10>> \o Join(Tail(lines))

GetHexDump(bytes, orig_ofs) ==
  LET hexdata == hexlify(bytes)
      data_out == FullLines(hexdata, orig_ofs, 0, Len(hexdata) \div HexPerLine)
                    \o LastLine(hexdata, orig_ofs)
  IN  Join(data_out)

\* GetHexDumpStream on a file object whose content is content and whose
\* seek or read raises IOError when fails names it.
GetHexDumpStream(content, fails, ofs, lines) ==
  IF fails = "seek"
  THEN [raised |-> TRUE, text |-> <<>>, seeks |-> <<ofs>>]
  ELSE IF fails = "read"
  THEN [raised |-> TRUE, text |-> <<>>, seeks |-> <<ofs>>]
  ELSE [raised |-> FALSE,
        text |-> GetHexDump(PySlice(content, ofs, ofs + lines * BytesPerLine),
                            ofs),
        seeks |-> <<ofs>>]

\* u'Error opening file: %s' % e, for the IOError e of the model
ErrorOpeningFile == <<69, 114, 114, 111, 114, 32, 111, 112, 101, 110, 105, 110, 103, 32, 102, 105, 108, 101, 58, 32, 110, 111, 32, 115, 117, 99, 104, 32, 102, 105, 108, 101>>

\* GetEventData without the try/except around pfile.OpenPFile.
GetEventDataNoCatch(event, content, fails, bytes_before, lines) ==
  IF ~event.present THEN [raised |-> FALSE, text |-> <<>>, seeks |-> <<>>]
  ELSE IF ~event.has_pathspec
  THEN [raised |-> FALSE, text |-> <<>>, seeks |-> <<>>]
  ELSE IF fails = "open"
  THEN [raised |-> TRUE, text |-> <<>>, seeks |-> <<>>]
  ELSE LET ofs == IF event.has_offset THEN event.offset ELSE 0
           start == IF ofs - bytes_before > 0 THEN ofs - bytes_before ELSE ofs
       IN  GetHexDumpStream(content, fails, start, lines)

\* GetEventData: event is [present, has_pathspec, has_offset, offset].
GetEventData(event, content, fails, bytes_before, lines) ==
  IF ~event.present THEN [raised |-> FALSE, text |-> <<>>, seeks |-> <<>>]
  ELSE IF ~event.has_pathspec
  THEN [raised |-> FALSE, text |-> <<>>, seeks |-> <<>>]
  ELSE IF fails = "open"
  THEN [raised |-> FALSE, text |-> ErrorOpeningFile, seeks |-> <<>>]
  ELSE LET ofs == IF event.has_offset THEN event.offset ELSE 0
           start == IF ofs - bytes_before > 0 THEN ofs - bytes_before ELSE ofs
       IN  GetHexDumpStream(content, fails, start, lines)

(***************************************************************************)
(* The inputs of the hex dump renderer.                                    *)
(***************************************************************************)
MaxDataLen == 33
MaxLines == 2

\* Byte values on both sides of the printable range (32..127), with hex
\* digits of both kinds.
ByteValues == {31, 32, 65, 127, 128}

\* A buffer is the first n bytes of a repeated pattern of one or two bytes.
Patterns == SeqsUpTo(ByteValues, 2) \ {<<>>}
Cycle(pattern, n) == [i \in 1..n |-> pattern[((i - 1) % Len(pattern)) + 1]]
Buffers == {Cycle(p, n) : p \in Patterns, n \in 0..MaxDataLen}
FileContents == {Cycle(p, n) : p \in {<<65>>, <<31, 128>>}, n \in 0..MaxDataLen}

DumpOffsets == {0, 16, 268435440}
StreamOffsets == {0, 5, 16, 40}
EventOffsets == {0, 5, 16, 20}
Befores == {0, 5, 10}

NoEvent == [present |-> FALSE, has_pathspec |-> FALSE, has_offset |-> FALSE, offset |-> 0]
Events ==
  {NoEvent}
    \cup {[present |-> TRUE, has_pathspec |-> FALSE, has_offset |-> FALSE, offset |-> 0]}
    \cup {[present |-> TRUE, has_pathspec |-> TRUE, has_offset |-> FALSE, offset |-> 0]}
    \cup {[present |-> TRUE, has_pathspec |-> TRUE, has_offset |-> TRUE, offset |-> o] :
            o \in EventOffsets}

(***************************************************************************)
(* The state after construction and the calls.                             *)
(***************************************************************************)
NoSelection ==
  /\ next_id = 1
  /\ calls = 0
  /\ filter_include = <<>>
  /\ filter_exclude = <<>>
  /\ parser_list = <<>>
  /\ results = NoResults
  /\ log = <<>>
  /\ constructed = <<>>
  /\ earlier = {}
  /\ remembered = NotRemembered

NoDump ==
  /\ evt = NoEvent
  /\ before = 0
  /\ length = 0
  /\ io_error = "none"
  /\ offset = 0
  /\ seeks = <<>>
  /\ text = <<>>

NoCall ==
  /\ op = "none"
  /\ returned = FALSE
  /\ raised = FALSE

Init ==
  /\ parser_classes \in ParserCatalogs
  /\ plugin_classes \in PluginCatalogs
  /\ data = <<>>
  /\ NoSelection /\ NoDump /\ NoCall

InitDump ==
  /\ parser_classes = <<>>
  /\ plugin_classes = [n \in {} |-> ""]
  /\ data \in Buffers
  /\ NoSelection /\ NoDump /\ NoCall

InitEvent ==
  /\ parser_classes = <<>>
  /\ plugin_classes = [n \in {} |-> ""]
  /\ data \in FileContents
  /\ NoSelection /\ NoDump /\ NoCall

\* A call FindAllParsers(pre_obj, config, parser_filter_string) whose filter
\* string parses to (include, exclude); keep records the call in remembered.
FindAllParsersCall(include, exclude, keep) ==
  LET r == FindAllParsers(include, exclude, parser_classes, plugin_classes, next_id)
  IN  /\ op' = "FindAllParsers"
      /\ calls' = calls + 1
      /\ filter_include' = include
      /\ filter_exclude' = exclude
      /\ parser_list' = r.parser_list
      /\ results' = r.results
      /\ returned' = r.returned
      /\ raised' = r.raised
      /\ log' = r.log
      /\ constructed' = r.created
      /\ earlier' = earlier \cup Range(constructed)
      /\ next_id' = next_id + Len(r.created)
      /\ remembered' =
           IF keep
           THEN [set |-> TRUE, include |-> include, exclude |-> exclude,
                 raised |-> r.raised,
                 names |-> IF r.returned THEN Names(r.results.all) ELSE <<>>]
           ELSE remembered
      /\ UNCHANGED <<parser_classes, plugin_classes, hexvars>>

\* A direct call GetParsersFromPlugins(filter_strings, exclude_strings).
GetParsersFromPluginsCall(filter_strings, exclude_strings, exclude_is_list) ==
  /\ op' = "GetParsersFromPlugins"
  /\ calls' = calls + 1
  /\ filter_include' = filter_strings
  /\ filter_exclude' = exclude_strings
  /\ parser_list' = GetParsersFromPlugins(filter_strings, exclude_strings, exclude_is_list, plugin_classes)
  /\ results' = NoResults
  /\ returned' = TRUE
  /\ raised' = FALSE
  /\ log' = <<>>
  /\ constructed' = <<>>
  /\ earlier' = earlier \cup Range(constructed)
  /\ UNCHANGED <<parser_classes, plugin_classes, next_id, remembered, hexvars>>

\* A call GetHexDump(data, offset).
GetHexDumpCall(ofs) ==
  /\ op' = "GetHexDump"
  /\ offset' = ofs
  /\ text' = GetHexDump(data, ofs)
  /\ returned' = TRUE
  /\ raised' = FALSE
  /\ UNCHANGED <<selvars, data, evt, before, length, io_error, seeks>>

\* A call GetHexDumpStream(fh, offset, length) on a file object over data.
GetHexDumpStreamCall(fails, ofs, lines) ==
  LET r == GetHexDumpStream(data, fails, ofs, lines)
  IN  /\ op' = "GetHexDumpStream"
      /\ offset' = ofs
      /\ length' = lines
      /\ io_error' = fails
      /\ seeks' = r.seeks
      /\ text' = r.text
      /\ returned' = ~r.raised
      /\ raised' = r.raised
      /\ UNCHANGED <<selvars, data, evt, before>>

\* A call GetEventData(evt, fscache, before, length); the event's pathspec
\* names the file whose content is data.
GetEventDataCall(event, fails, bytes_before, lines) ==
  LET r == GetEventData(event, data, fails, bytes_before, lines)
  IN  /\ op' = "GetEventData"
      /\ evt' = event
      /\ before' = bytes_before
      /\ length' = lines
      /\ io_error' = fails
      /\ seeks' = r.seeks
      /\ text' = r.text
      /\ returned' = ~r.raised
      /\ raised' = r.raised
      /\ UNCHANGED <<selvars, data, offset>>

(***************************************************************************)
(* Specifications.  Spec, SpecDump and SpecEvent apply one call to every   *)
(* input; SpecCalls runs sequences of selection calls.                     *)
(***************************************************************************)
Next ==
  \/ /\ op = "none"
     /\ \E include \in IncludeLists, exclude \in ExcludeLists :
          FindAllParsersCall(include, exclude, FALSE)
  \/ /\ op = "none"
     /\ \E include \in IncludeLists, exclude \in ExcludeLists, is_list \in BOOLEAN :
          GetParsersFromPluginsCall(include, exclude, is_list)

Spec == Init /\ [][Next]_vars

\* The filters of the call sequences.
CallFilters ==
  { [include |-> <<>>, exclude |-> <<>>],
    [include |-> <<>>, exclude |-> <<"winevt">>],
    [include |-> <<"skype">>, exclude |-> <<>>],
    [include |-> <<"skype", "winevt">>, exclude |-> <<"sqliteparser">>],
    [include |-> <<"sqliteparser", "winevt">>, exclude |-> <<>>] }

NextCalls ==
  \/ /\ calls < MaxCalls
     /\ \E f \in CallFilters, keep \in BOOLEAN :
          FindAllParsersCall(f.include, f.exclude, keep)
  \/ /\ calls < MaxCalls
     /\ \E f \in CallFilters :
          GetParsersFromPluginsCall(f.include, f.exclude, TRUE)

SpecCalls == Init /\ [][NextCalls]_vars

NextDump ==
  /\ op = "none"
  /\ \E ofs \in DumpOffsets : GetHexDumpCall(ofs)

SpecDump == InitDump /\ [][NextDump]_vars

NextEvent ==
  \/ /\ op = "none"
     /\ \E event \in Events, fails \in {"none", "open", "seek", "read"},
           bytes_before \in Befores, lines \in 0..MaxLines :
          GetEventDataCall(event, fails, bytes_before, lines)
  \/ /\ op = "none"
     /\ \E fails \in {"none", "seek", "read"}, ofs \in StreamOffsets,
           lines \in 0..MaxLines :
          GetHexDumpStreamCall(fails, ofs, lines)

SpecEvent == InitEvent /\ [][NextEvent]_vars

(***************************************************************************)
(* Properties.                                                             *)
(***************************************************************************)
Selected == results.all
SelectedNames == Names(Selected)
Registered == [i \in 1..Len(parser_classes) |-> parser_classes[i].name]
Broken == \E i \in 1..Len(parser_classes) : parser_classes[i].fails

\* C1: exclusion precedence.  No parser whose lowercase name is in the
\* exclude list is in the 'all' list FindAllParsers returns, whether the name
\* is in the include list as handed in or was added by GetParsersFromPlugins.
ExclusionPrecedence ==
  (op = "FindAllParsers" /\ returned) =>
    \A i \in 1..Len(Selected) :
      ~Contains(filter_exclude, Lower(Selected[i].parser_name))

\* A returned selection from a registry holding a parser whose lowercase name
\* is excluded and was added to the include list by plugin resolution, next to
\* a parser that is selected.
ExclusionPrecedenceWitness ==
  /\ op = "FindAllParsers" /\ returned
  /\ \E i \in 1..Len(parser_classes) :
       /\ Contains(filter_exclude, Lower(parser_classes[i].name))
       /\ Contains(parser_list, Lower(parser_classes[i].name))
  /\ Len(Selected) > 0

\* C2: pass-through.  With an empty include and an empty exclude list the
\* 'all' list holds exactly one instance of every registered parser, in the
\* order in which _FindClasses enumerates the registry.
PassThrough ==
  (op = "FindAllParsers" /\ returned
     /\ filter_include = <<>> /\ filter_exclude = <<>>) =>
    /\ SelectedNames = Registered
    /\ Selected = constructed
    /\ \A i, j \in 1..Len(Selected) : i # j => Selected[i].id # Selected[j].id

PassThroughWitness ==
  /\ op = "FindAllParsers" /\ returned
  /\ filter_include = <<>> /\ filter_exclude = <<>>
  /\ Len(parser_classes) = 3
  /\ Len(Selected) = 3

FailFast ==
  (op = "FindAllParsers" /\ Broken) =>
    LET first == CHOOSE i \in 1..Len(parser_classes) :
                   /\ parser_classes[i].fails
                   /\ \A j \in 1..(i - 1) : ~parser_classes[j].fails
    IN  /\ raised /\ ~returned
        /\ DOMAIN results = {}
        /\ log = <<parser_classes[first].name>>
        /\ Names(constructed) = SubSeq(Registered, 1, first - 1)

\* The first of two registered parsers fails: the second is never constructed.
FailFastWitness ==
  /\ op = "FindAllParsers" /\ raised
  /\ Len(parser_classes) = 2
  /\ parser_classes[1].fails /\ ~parser_classes[2].fails
  /\ constructed = <<>>

\* C10: an exclude-only filter selects nothing.  With an empty include list and
\* a non-empty exclude list GetParsersFromPlugins adds nothing and the 'all'
\* list returned is empty whatever the registry holds; the filter itself raises
\* nothing (the call raises only when a constructor does).
ExcludeOnlySelectsNothing ==
  (op = "FindAllParsers" /\ filter_include = <<>> /\ filter_exclude # <<>>) =>
    /\ parser_list = <<>>
    /\ raised <=> Broken
    /\ returned <=> ~Broken
    /\ returned => Selected = <<>>

\* An exclude-only filter against a registry with a parser that the filter
\* does not name, which a subtraction from the full catalog would have kept.
ExcludeOnlyWitness ==
  /\ op = "FindAllParsers" /\ returned
  /\ filter_include = <<>> /\ filter_exclude = <<"winevt">>
  /\ Contains(Registered, "SQLiteParser")
  /\ Selected = <<>>

\* C9: no cross-call state.  Over any sequence of FindAllParsers and
\* GetParsersFromPlugins calls the two registries never change; a
\* FindAllParsers call constructs a new instance of every registered parser,
\* none of them an instance of an earlier call; and a call with the filter
\* lists of a remembered earlier call has the same outcome and selects the same
\* names in the same order.
NoCrossCallState ==
  /\ [][parser_classes' = parser_classes /\ plugin_classes' = plugin_classes]_vars
  /\ [](op = "FindAllParsers" =>
          /\ Range(constructed) \cap earlier = {}
          /\ returned => Names(constructed) = Registered
          /\ \A i, j \in 1..Len(constructed) :
               i # j => constructed[i].id # constructed[j].id)
  /\ []((op = "FindAllParsers" /\ remembered.set
           /\ remembered.include = filter_include
           /\ remembered.exclude = filter_exclude) =>
          /\ remembered.raised = raised
          /\ returned => remembered.names = SelectedNames)

\* The third call of a sequence repeats the filter of a remembered earlier
\* call and selects parsers, after earlier calls constructed instances.
NoCrossCallStateWitness ==
  /\ op = "FindAllParsers" /\ returned
  /\ calls = 3
  /\ remembered.set
  /\ remembered.include = filter_include
  /\ remembered.exclude = filter_exclude
  /\ Len(Selected) > 0
  /\ Cardinality(earlier) >= 2 * Len(parser_classes)
  /\ Len(parser_classes) = 2

(***************************************************************************)
(* The layout the hex dump is to have, built from the bytes.               *)
(***************************************************************************)
HexChars == <<48, 49, 50, 51, 52, 53, 54, 55, 56, 57, 97, 98, 99, 100, 101, 102>>

RECURSIVE Pow16(_)
Pow16(i) == IF i = 0 THEN 1 ELSE 16 * Pow16(i - 1)

\* n in hexadecimal, zero-padded to seven digits; a number from 16^7 on (the
\* model's offsets stay below 16^8) takes eight.
ExpectedOffset(n) ==
  LET width == IF n >= Pow16(7) THEN 8 ELSE 7
  IN  [i \in 1..width |-> HexChars[((n \div Pow16(width - i)) % 16) + 1]]

Rendering(b) == IF b > 31 /\ b < 128 THEN b ELSE 46

\* The hex columns of the bytes of one line: 8 chunks of 4 characters, each
\* followed by a space; a byte that is not there shows as two spaces.
ExpectedHexColumns(bytes) ==
  [c \in 1..40 |->
     LET chunk == (c - 1) \div 5
         within == (c - 1) % 5
         byte == 2 * chunk + (within \div 2) + 1
     IN  IF within = 4 \/ byte > Len(bytes) THEN 32
         ELSE IF within % 2 = 0 THEN HexChars[(bytes[byte] \div 16) + 1]
         ELSE HexChars[(bytes[byte] % 16) + 1]]

\* The ASCII column: one character per byte, '.' for a byte that is not there.
ExpectedAscii(bytes) ==
  [i \in 1..16 |-> IF i <= Len(bytes) THEN Rendering(bytes[i]) ELSE 46]

ExpectedLine(bytes, n) ==
  ExpectedOffset(n) \o <<58, 32>> \o ExpectedHexColumns(bytes) \o ExpectedAscii(bytes)

\* The lines of a text, split at its newlines.
RECURSIVE TextLines(_)
TextLines(t) ==
  IF \A i \in 1..Len(t) : t[i] # 10 THEN <<t>>
  ELSE LET nl == CHOOSE i \in 1..Len(t) :
                   t[i] = 10 /\ \A j \in 1..(i - 1) : t[j] # 10
       IN  <<SubSeq(t, 1, nl - 1)>> \o TextLines(SubSeq(t, nl + 1, Len(t)))

DumpLines == IF text = <<>> THEN <<>> ELSE TextLines(text)
Group(k) == SubSeq(data, 16 * k + 1, Min(16 * k + 16, Len(data)))

\* C6: full-line layout.  For every complete 16-byte group k of the input,
\* line k of GetHexDump(data, offset) is offset + 16*k in hexadecimal
\* zero-padded to 7 digits, then ": ", then the 16 bytes in input order as eight
\* chunks of 4 hex characters each followed by a space, then 16 characters, the
\* i-th being the i-th byte's character when its ordinal is strictly between 31
\* and 128 and '.' otherwise; the lines are joined by single newlines and no
\* newline ends the text.
FullLineLayout ==
  (op = "GetHexDump") =>
    /\ \A k \in 0..((Len(data) \div 16) - 1) :
         /\ k + 1 <= Len(DumpLines)
         /\ DumpLines[k + 1] = ExpectedLine(Group(k), offset + 16 * k)
    /\ Len(DumpLines) = (Len(data) + 15) \div 16
    /\ \A l \in 1..Len(DumpLines) : DumpLines[l] # <<>>

\* A dump of two complete lines holding bytes on both sides of both limits of
\* the printable range.
FullLineLayoutWitness ==
  /\ op = "GetHexDump"
  /\ Len(data) = 32
  /\ Len(DumpLines) = 2
  /\ \E i, j \in 1..16 : data[i] = 31 /\ data[j] = 127

\* C5: trailing partial line.  For an input of n bytes with n mod 16 # 0,
\* GetHexDump gives ceil(n/16) lines and the last line shows exactly the last
\* n mod 16 bytes: their hex pairs in input order, padded with spaces to the
\* hex width of a full line, then 16 characters of which the first n mod 16
\* render those bytes and the others are '.'.
TrailingPartialLine ==
  (op = "GetHexDump" /\ Len(data) % 16 # 0) =>
    LET full == Len(data) \div 16
    IN  /\ Len(DumpLines) = full + 1
        /\ DumpLines[full + 1] = ExpectedLine(Group(full), offset + 16 * full)

\* C4: read-offset clamping.  For an event with offset o >= 0 and before
\* b >= 0, GetEventData seeks to max(0, o - b) and dumps from there.
ReadOffsetClamped ==
  (op = "GetEventData" /\ evt.present /\ evt.has_pathspec /\ evt.has_offset
     /\ io_error = "none") =>
    seeks = <<IF evt.offset - before > 0 THEN evt.offset - before ELSE 0>>

\* C8 as stated: for an event with a location descriptor, an IOError raised
\* anywhere on the GetEventData path (open, seek or read) is caught and
\* GetEventData returns text.
IoErrorsAreData ==
  (op = "GetEventData" /\ evt.present /\ evt.has_pathspec
     /\ io_error # "none") =>
    (returned /\ ~raised)

\* C8 as amended: an IOError raised while opening the byte source is caught
\* and GetEventData returns the text 'Error opening file: ...' without
\* touching the source; an IOError raised by seek or read in GetHexDumpStream
\* reaches the caller of GetEventData.
OpenErrorsAreData ==
  (op = "GetEventData" /\ evt.present /\ evt.has_pathspec) =>
    /\ io_error = "open" =>
         (returned /\ ~raised /\ text = ErrorOpeningFile /\ seeks = <<>>)
    /\ io_error \in {"seek", "read"} => (raised /\ ~returned)

OpenErrorsAreDataWitness ==
  /\ op = "GetEventData" /\ evt.present /\ evt.has_pathspec
  /\ io_error = "open"
  /\ returned /\ text = ErrorOpeningFile

====
